---- MODULE Spec2Model ----
(***************************************************************************)
(* A model of pytntp (src/src/tntp.py): the four TNTP readers and the      *)
(* graph assembler.  Every reader is a pure function of the file it is     *)
(* given; the state machine records the last call made, its arguments and  *)
(* what it returned or raised.                                             *)
(*                                                                         *)
(* Text is a sequence of one-character strings.  A call returns            *)
(*   [kind |-> "ok", value |-> ...]   or   [kind |-> "raise", exc |-> ...] *)
(***************************************************************************)
EXTENDS Integers, Sequences, FiniteSets, TLC

VARIABLES call, arg, rows, ret

vars == <<call, arg, rows, ret>>

\* Bounds of the model.
MaxChunks == 4
MaxRows == 2

Range(f) == {f[k] : k \in DOMAIN f}

Raise(e) == [kind |-> "raise", exc |-> e]
Ok(v) == [kind |-> "ok", value |-> v]

(***************************************************************************)
(* Characters and the two regular expressions of read_demand_file.         *)
(***************************************************************************)
Digits == {"0", "1", "2", "3", "4", "5", "6", "7", "8", "9"}

\* what \s matches among the characters of the model
Spaces == {" ", "\t", "\n", "\r"}

DigitVal(c) ==
    CASE c = "0" -> 0 [] c = "1" -> 1 [] c = "2" -> 2 [] c = "3" -> 3
      [] c = "4" -> 4 [] c = "5" -> 5 [] c = "6" -> 6 [] c = "7" -> 7
      [] c = "8" -> 8 [] c = "9" -> 9

\* The position after the longest run of characters of Class that starts at
\* position i of s: what a greedy \d+, \s+ or \s* consumes.  Each of these
\* is followed in its pattern by something no character of its class can
\* start, so giving characters back never turns a failure into a match.
RECURSIVE SpanEnd(_, _, _)
SpanEnd(s, i, Class) ==
    IF i <= Len(s) /\ s[i] \in Class THEN SpanEnd(s, i + 1, Class) ELSE i

CharAt(s, i, c) == i <= Len(s) /\ s[i] = c

NoMatch == [end |-> 0]

OriginWord == <<"O", "r", "i", "g", "i", "n">>

\* header_pattern = r"Origin\s+(\d+)" tried at position i
MatchHeader(s, i) ==
    LET a == i + Len(OriginWord)
        b == SpanEnd(s, a, Spaces)
        c == SpanEnd(s, b, Digits)
    IN  IF /\ a - 1 <= Len(s)
           /\ SubSeq(s, i, a - 1) = OriginWord
           /\ b > a
           /\ c > b
        THEN [end |-> c, groups |-> <<SubSeq(s, b, c - 1)>>]
        ELSE NoMatch

\* demand_pattern = r"(\d+)\s*:\s*(\d+(?:\.\d+));" tried at position i
MatchDemand(s, i) ==
    LET a == SpanEnd(s, i, Digits)
        b == SpanEnd(s, a, Spaces)
        c == SpanEnd(s, b + 1, Spaces)
        d == SpanEnd(s, c, Digits)
        e == SpanEnd(s, d + 1, Digits)
    IN  IF /\ a > i
           /\ CharAt(s, b, ":")
           /\ d > c
           /\ CharAt(s, d, ".")
           /\ e > d + 1
           /\ CharAt(s, e, ";")
        THEN [end |-> e + 1,
              groups |-> <<SubSeq(s, i, a - 1), SubSeq(s, c, e - 1)>>]
        ELSE NoMatch

\* the leftmost position >= pos where the header pattern matches, else 0
RECURSIVE SearchHeader(_, _)
SearchHeader(s, pos) ==
    IF pos > Len(s) THEN 0
    ELSE IF MatchHeader(s, pos).end # 0 THEN pos
    ELSE SearchHeader(s, pos + 1)

RECURSIVE SearchDemand(_, _)
SearchDemand(s, pos) ==
    IF pos > Len(s) THEN 0
    ELSE IF MatchDemand(s, pos).end # 0 THEN pos
    ELSE SearchDemand(s, pos + 1)

\* re.split(header_pattern, data): the text between the matches, with the
\* captured group of each match in between
RECURSIVE SplitFrom(_, _)
SplitFrom(s, pos) ==
    LET i == SearchHeader(s, pos)
    IN  IF i = 0 THEN <<SubSeq(s, pos, Len(s))>>
        ELSE LET m == MatchHeader(s, i)
             IN  <<SubSeq(s, pos, i - 1), m.groups[1]>> \o SplitFrom(s, m.end)

ReSplit(s) == SplitFrom(s, 1)

\* re.findall(demand_pattern, block): the groups of the non-overlapping
\* matches, left to right
RECURSIVE FindallFrom(_, _)
FindallFrom(s, pos) ==
    LET i == SearchDemand(s, pos)
    IN  IF i = 0 THEN <<>>
        ELSE LET m == MatchDemand(s, i)
             IN  <<m.groups>> \o FindallFrom(s, m.end)

ReFindall(s) == FindallFrom(s, 1)

\* int(str) of a string of digits
RECURSIVE ToInt(_)
ToInt(ds) ==
    IF ds = <<>> THEN 0
    ELSE 10 * ToInt(SubSeq(ds, 1, Len(ds) - 1)) + DigitVal(ds[Len(ds)])

\* float(str) of "<digits>.<digits>" or "<digits>", as a number of
\* hundredths (the texts of the model carry at most two decimals)
ToFloat(ds) ==
    LET p == SpanEnd(ds, 1, Digits)
        whole == ToInt(SubSeq(ds, 1, p - 1))
        frac == SubSeq(ds, p + 1, Len(ds))
        f1 == IF Len(frac) >= 1 THEN DigitVal(frac[1]) ELSE 0
        f2 == IF Len(frac) >= 2 THEN DigitVal(frac[2]) ELSE 0
    IN  100 * whole + 10 * f1 + f2

(***************************************************************************)
(* read_demand_file                                                        *)
(***************************************************************************)
\* for orig, block in itertools.batched(blocks, 2):
\*     for dest, demand in re.findall(demand_pattern, block): rows.append(...)
RECURSIVE DemandRows(_)
DemandRows(blocks) ==
    IF Len(blocks) < 2 THEN <<>>
    ELSE LET orig == blocks[1]
             found == ReFindall(blocks[2])
         IN  [k \in 1..Len(found) |-> <<orig, found[k][1], found[k][2]>>]
                 \o DemandRows(SubSeq(blocks, 3, Len(blocks)))

\* (mutant) the leading chunk is kept: blocks = re.split(header_pattern, data)
DemandBlocksKeepPreamble(data) == ReSplit(data)

\* blocks = re.split(header_pattern, data)[1:]
DemandBlocks(data) == Tail(ReSplit(data))

\* the three astype calls on the long-form table
CoerceRows(rs) ==
    [k \in 1..Len(rs) |-> <<ToInt(rs[k][1]), ToInt(rs[k][2]), ToFloat(rs[k][3])>>]

\* df.pivot(index="orig", columns="dest", values="demand"): one row per
\* origin, one column per destination, a cell without a triple is missing
\* (the empty set here); two triples for one cell make pandas raise
\* ValueError("Index contains duplicate entries, cannot reshape")
Pivot(rs) ==
    IF \E j, k \in 1..Len(rs) : j # k /\ rs[j][1] = rs[k][1] /\ rs[j][2] = rs[k][2]
    THEN Raise("ValueError")
    ELSE LET index == {rs[k][1] : k \in 1..Len(rs)}
             columns == {rs[k][2] : k \in 1..Len(rs)}
         IN  Ok([index |-> index,
                 columns |-> columns,
                 cells |-> [c \in index \X columns |->
                              {rs[k][3] : k \in {j \in 1..Len(rs) :
                                   rs[j][1] = c[1] /\ rs[j][2] = c[2]}}]])

\* data is the text of the file, decoded where it was opened in binary mode
read_demand_file(data) == Pivot(CoerceRows(DemandRows(DemandBlocks(data))))

(***************************************************************************)
(* Tables.  A column name is its text without the white space around it    *)
(* (core) and how much white space the file puts before and after it.  A   *)
(* cell is a tuple: <<n>> a number, <<x, y>> a point, <<>> None / NaN.     *)
(* A table (DataFrame) is                                                  *)
(*   [index_names, index, columns, data]                                   *)
(* with index[r] the key tuple of row r and data[r][c] its cell in         *)
(* columns[c].                                                             *)
(***************************************************************************)
Nm(c) == [core |-> c, lpad |-> 0, rpad |-> 0]
Pad(c, l, r) == [core |-> c, lpad |-> l, rpad |-> r]

\* name.strip()
Strip(n) == Nm(n.core)

None == <<>>

Positions(cols, n) == {k \in 1..Len(cols) : cols[k] = n}

RECURSIVE Without(_, _, _)
Without(seq, P, k) ==
    IF k > Len(seq) THEN <<>>
    ELSE (IF k \in P THEN <<>> ELSE <<seq[k]>>) \o Without(seq, P, k + 1)

HasDuplicates(seq) == \E j, k \in 1..Len(seq) : j # k /\ seq[j] = seq[k]

\* pd.read_csv(path, sep="\t") of the lines from the header on (skiprows=8
\* steps over the metadata lines of a net file): a default RangeIndex, the
\* header's names as they are written
ReadCsv(file) ==
    [index_names |-> <<None>>,
     index |-> [r \in 1..Len(file.rows) |-> <<r - 1>>],
     columns |-> file.header,
     data |-> file.rows]

\* pd.read_csv(path, sep="\t", index_col=index_col): the column whose header
\* is index_col, as written in the file, becomes the index; no such header
\* is ValueError("Index ... invalid"); repeated keys are accepted
ReadCsvIndexed(file, index_col) ==
    LET P == Positions(file.header, index_col)
        p == CHOOSE k \in P : TRUE
    IN  IF P = {} THEN Raise("ValueError")
        ELSE Ok([index_names |-> <<index_col>>,
                 index |-> [r \in 1..Len(file.rows) |-> <<file.rows[r][p][1]>>],
                 columns |-> Without(file.header, P, 1),
                 data |-> [r \in 1..Len(file.rows) |-> Without(file.rows[r], P, 1)]])

\* df.rename(columns={name: name.strip() for name in df.columns})
RenameStripped(df) ==
    [df EXCEPT !.columns = [k \in 1..Len(df.columns) |-> Strip(df.columns[k])]]

\* df.drop(labels, axis=1): KeyError when a label is no column
Drop(df, labels) ==
    IF \E l \in labels : Positions(df.columns, l) = {} THEN Raise("KeyError")
    ELSE LET P == UNION {Positions(df.columns, l) : l \in labels}
         IN  Ok([df EXCEPT !.columns = Without(df.columns, P, 1),
                           !.data = [r \in 1..Len(df.data) |-> Without(df.data[r], P, 1)]])

\* df[name] = cells: the column is overwritten, or added last
SetColumn(df, name, cells) ==
    LET P == Positions(df.columns, name)
    IN  IF P # {}
        THEN [df EXCEPT !.data = [r \in 1..Len(df.data) |->
                  [c \in 1..Len(df.columns) |-> IF c \in P THEN cells[r] ELSE df.data[r][c]]]]
        ELSE [df EXCEPT !.columns = Append(df.columns, name),
                        !.data = [r \in 1..Len(df.data) |-> Append(df.data[r], cells[r])]]

Column(df, name) ==
    LET p == CHOOSE k \in Positions(df.columns, name) : TRUE
    IN  [r \in 1..Len(df.data) |-> df.data[r][p]]

\* (mutant) df.set_index(keys) without verify_integrity
SetIndexUnverified(df, keys) ==
    IF \E k \in 1..Len(keys) : Positions(df.columns, keys[k]) = {} THEN Raise("KeyError")
    ELSE LET index == [r \in 1..Len(df.data) |->
                          [k \in 1..Len(keys) |-> Column(df, keys[k])[r][1]]]
             P == UNION {Positions(df.columns, keys[k]) : k \in 1..Len(keys)}
         IN  Ok([index_names |-> keys,
                 index |-> index,
                 columns |-> Without(df.columns, P, 1),
                 data |-> [r \in 1..Len(df.data) |-> Without(df.data[r], P, 1)]])

\* df.set_index(keys, verify_integrity=True): KeyError when a key is no
\* column, ValueError("Index has duplicate keys") when two rows share a key
SetIndex(df, keys) ==
    IF \E k \in 1..Len(keys) : Positions(df.columns, keys[k]) = {} THEN Raise("KeyError")
    ELSE LET index == [r \in 1..Len(df.data) |->
                          [k \in 1..Len(keys) |-> Column(df, keys[k])[r][1]]]
             P == UNION {Positions(df.columns, keys[k]) : k \in 1..Len(keys)}
         IN  IF HasDuplicates(index) THEN Raise("ValueError")
             ELSE Ok([index_names |-> keys,
                      index |-> index,
                      columns |-> Without(df.columns, P, 1),
                      data |-> [r \in 1..Len(df.data) |-> Without(df.data[r], P, 1)]])

Fill(df, cell) == [r \in 1..Len(df.data) |-> cell]

(***************************************************************************)
(* read_net_file, read_flow_file, read_node_file                           *)
(***************************************************************************)
NoArg == Nm("")

\* lines 36-39 and 96-99: the (u, v, key) index, the key 0 when no k_col
KeyedIndex(df, u_col, v_col, k_col) ==
    IF k_col = NoArg
    THEN SetIndex(SetColumn(df, Nm("key"), Fill(df, <<0>>)), <<u_col, v_col, Nm("key")>>)
    ELSE SetIndex(df, <<u_col, v_col, k_col>>)

read_net_file(file, u_col, v_col, k_col) ==
    LET dropped == Drop(RenameStripped(ReadCsv(file)), {Nm("~"), Nm(";")})
        keyed == KeyedIndex(dropped.value, u_col, v_col, k_col)
    IN  IF dropped.kind = "raise" THEN dropped
        ELSE IF keyed.kind = "raise" THEN keyed
        ELSE Ok(SetColumn(keyed.value, Nm("geometry"), Fill(keyed.value, None)))

read_flow_file(file, u_col, v_col, k_col) ==
    KeyedIndex(RenameStripped(ReadCsv(file)), u_col, v_col, k_col)

read_node_file(file, index_col, x_col, y_col) ==
    LET read == ReadCsvIndexed(file, index_col)
        dropped == Drop(RenameStripped(read.value), {Nm(";")})
        df == dropped.value
    IN  IF read.kind = "raise" THEN read
        ELSE IF dropped.kind = "raise" THEN dropped
        ELSE IF Positions(df.columns, x_col) = {} \/ Positions(df.columns, y_col) = {}
             THEN Raise("KeyError")
        ELSE Ok(SetColumn(df, Nm("geometry"),
                          [r \in 1..Len(df.data) |->
                              Column(df, x_col)[r] \o Column(df, y_col)[r]]))

(***************************************************************************)
(* convert_to_networkx                                                     *)
(***************************************************************************)
\* (mutant) the flow table keeps the level names it was read with
KeepNames(df, names) == df

\* flow_df.index.set_names(net_df.index.names, inplace=True)
SetNames(df, names) == [df EXCEPT !.index_names = names]

Cores(names) == {names[k].core : k \in 1..Len(names)}

\* net_df.join(flow_df): a left join on the index levels the two tables have
\* in common BY NAME (all of them when the names agree level by level).  A
\* left row keeps its place, once per matching right row, or once with the
\* right columns missing.  ValueError when a column name is on both sides or
\* when no level name is shared.
Join(left, right) ==
    LET common == {n \in Range(left.index_names) : n \in Range(right.index_names)}
        lp(n) == CHOOSE k \in 1..Len(left.index_names) : left.index_names[k] = n
        rp(n) == CHOOSE k \in 1..Len(right.index_names) : right.index_names[k] = n
        matches(r) == {q \in 1..Len(right.index) :
                          \A n \in common : left.index[r][lp(n)] = right.index[q][rp(n)]}
        missing == [c \in 1..Len(right.columns) |-> None]
        RECURSIVE Expand(_, _)
        Expand(r, q) ==
            IF r > Len(left.index) THEN <<>>
            ELSE IF matches(r) = {}
                 THEN <<[idx |-> left.index[r], cells |-> left.data[r] \o missing]>>
                          \o Expand(r + 1, 1)
            ELSE IF q > Len(right.index) THEN Expand(r + 1, 1)
            ELSE (IF q \in matches(r)
                  THEN <<[idx |-> left.index[r], cells |-> left.data[r] \o right.data[q]]>>
                  ELSE <<>>) \o Expand(r, q + 1)
        out == Expand(1, 1)
    IN  IF Cores(left.columns) \cap Cores(right.columns) # {} \/ common = {}
        THEN Raise("ValueError")
        ELSE Ok([index_names |-> left.index_names,
                 index |-> [r \in 1..Len(out) |-> out[r].idx],
                 columns |-> left.columns \o right.columns,
                 data |-> [r \in 1..Len(out) |-> out[r].cells]])

\* the attributes a row gives its node or edge: the columns that are not null
Attrs(df, r) ==
    {<<df.columns[c].core, df.data[r][c]>> :
        c \in {k \in 1..Len(df.columns) : df.data[r][k] # None}}

\* osmnx.convert.graph_from_gdfs(gdf_nodes, gdf_edges): ValueError unless
\* both tables are uniquely indexed and every edge endpoint is a node id;
\* then one node per node id with the row's columns but the geometry as
\* attributes and, per edge row, an edge (u, v, key) with the row's non-null
\* columns as attributes
GraphFromGdfs(gdf_nodes, gdf_edges) ==
    LET ids == {gdf_nodes.index[r][1] : r \in 1..Len(gdf_nodes.index)}
        uv == {gdf_edges.index[r][1] : r \in 1..Len(gdf_edges.index)}
                \cup {gdf_edges.index[r][2] : r \in 1..Len(gdf_edges.index)}
    IN  IF \/ HasDuplicates(gdf_nodes.index)
           \/ HasDuplicates(gdf_edges.index)
           \/ ~(uv \subseteq ids)
        THEN Raise("ValueError")
        ELSE Ok([nodes |-> [id \in ids |->
                              {a \in Attrs(gdf_nodes,
                                           CHOOSE r \in 1..Len(gdf_nodes.index) :
                                               gdf_nodes.index[r] = <<id>>) :
                                  a[1] # "geometry"}],
                 edges |-> [e \in Range(gdf_edges.index) |->
                              Attrs(gdf_edges,
                                    CHOOSE r \in 1..Len(gdf_edges.index) :
                                        gdf_edges.index[r] = e)]])

\* flow is <<>> for flow_df=None, else <<flow_df>>
convert_to_networkx(node_df, net_df, flow) ==
    LET geometry == Column(node_df, Nm("geometry"))
        withx == SetColumn(node_df, Nm("x"), [r \in 1..Len(geometry) |-> <<geometry[r][1]>>])
        withxy == SetColumn(withx, Nm("y"), [r \in 1..Len(geometry) |-> <<geometry[r][2]>>])
        joined == IF flow = <<>> THEN Ok(net_df)
                  ELSE Join(net_df, SetNames(flow[1], net_df.index_names))
    IN  IF joined.kind = "raise" THEN joined
        ELSE GraphFromGdfs(withxy, joined.value)

(***************************************************************************)
(* Demand files of the model: up to MaxChunks pieces written one after the *)
(* other with nothing in between.                                          *)
(***************************************************************************)
ChunkText(c) ==
    CASE c = "H1" -> OriginWord \o <<" ", "1", "\n">>
      [] c = "H2" -> OriginWord \o <<" ", "2", "\n">>
      [] c = "E2" -> <<"2", " ", ":", "\n", "5", ".", "0", ";">>
      [] c = "E3" -> <<"3", ":", "1", ".", "5", ";">>
      [] c = "I2" -> <<"2", " ", ":", " ", "5", ";">>
      [] c = "NS" -> <<"3", " ", ":", " ", "1", ".", "5">>
      [] c = "NC" -> <<"3", " ", "1", ".", "5", ";">>
      [] c = "NV" -> <<"3", " ", ":", " ", ";">>
      [] c = "WS" -> <<" ">>
      [] c = "CM" -> <<"~">>

Headers == {"H1", "H2"}
WellFormed == {"E2", "E3", "I2"}
Malformed == {"NS", "NC", "NV"}
Chunks == Headers \cup WellFormed \cup Malformed \cup {"WS", "CM"}

RECURSIVE Render(_)
Render(items) ==
    IF items = <<>> THEN <<>> ELSE ChunkText(Head(items)) \o Render(Tail(items))

DemandFiles == UNION {[1..n -> Chunks] : n \in 0..MaxChunks}

(***************************************************************************)
(* Node, net and flow files of the model: a header line and up to MaxRows  *)
(* rows.                                                                   *)
(***************************************************************************)
NodeIds == {1, 2}

RowLists(choices) == UNION {[1..n -> choices] : n \in 0..MaxRows}

\* Node <tab> X <tab> Y <tab> ;   with white space around "Node" and after "X"
NodeFiles ==
    {[header |-> <<Pad("Node", l, r), Pad("X", 0, rx), Nm("Y"), Nm(";")>>,
      rows |-> rs] :
        l \in 0..1, r \in 0..1, rx \in 0..1,
        rs \in RowLists({<<<<id>>, <<x>>, <<0>>, None>> : id \in NodeIds, x \in 0..1})}

\* the names of src/example.py, and the defaults of the signature
NodeCallers == {<<Nm("Node"), Nm("X"), Nm("Y")>>, <<Nm("node"), Nm("x"), Nm("y")>>}

\* ~ <tab> init_node <tab> term_node <tab> [lane <tab>] capacity <tab> ;
NetHeader(r, lanes) ==
    <<Nm("~"), Pad("init_node", 0, r), Nm("term_node")>>
        \o (IF lanes THEN <<Nm("lane")>> ELSE <<>>) \o <<Nm("capacity"), Nm(";")>>

NetRow(u, v, k, lanes) ==
    <<None, <<u>>, <<v>>>> \o (IF lanes THEN <<<<k>>>> ELSE <<>>) \o <<<<7>>, None>>

NetFiles ==
    {[header |-> NetHeader(r, TRUE), rows |-> rs] :
        r \in 0..1,
        rs \in RowLists({NetRow(u, v, k, TRUE) : u \in NodeIds, v \in NodeIds, k \in 0..1})}
    \cup
    {[header |-> NetHeader(r, FALSE), rows |-> rs] :
        r \in 0..1,
        rs \in RowLists({NetRow(u, v, 0, FALSE) : u \in NodeIds, v \in NodeIds})}

\* From <tab> To <tab> [lane <tab>] volume, or the net file's own names
FlowHeader(own, lanes) ==
    (IF own THEN <<Nm("init_node"), Nm("term_node")>> ELSE <<Nm("From"), Nm("To")>>)
        \o (IF lanes THEN <<Nm("lane")>> ELSE <<>>) \o <<Nm("volume")>>

\* the volume written in a row tells the rows apart
FlowRow(u, v, k, lanes) ==
    <<<<u>>, <<v>>>> \o (IF lanes THEN <<<<k>>>> ELSE <<>>) \o <<<<100 * u + 10 * v + k>>>>

FlowFiles ==
    {[header |-> FlowHeader(own, TRUE), rows |-> rs] :
        own \in BOOLEAN,
        rs \in RowLists({FlowRow(u, v, k, TRUE) : u \in NodeIds, v \in NodeIds, k \in 0..1})}
    \cup
    {[header |-> FlowHeader(own, FALSE), rows |-> rs] :
        own \in BOOLEAN,
        rs \in RowLists({FlowRow(u, v, 0, FALSE) : u \in NodeIds, v \in NodeIds})}

EdgeCallers ==
    {<<u, v, k>> : u \in {Nm("init_node"), Nm("From")},
                   v \in {Nm("term_node"), Nm("To")},
                   k \in {NoArg, Nm("lane")}}

(***************************************************************************)
(* The state machine                                                       *)
(***************************************************************************)
Init ==
    /\ call = "none"
    /\ arg = <<>>
    /\ rows = <<>>
    /\ ret = Ok(<<>>)

CallReadDemandFile ==
    /\ call = "none"
    /\ \E items \in DemandFiles :
           /\ call' = "read_demand_file"
           /\ arg' = [items |-> items, data |-> Render(items)]
           /\ rows' = DemandRows(DemandBlocks(Render(items)))
           /\ ret' = read_demand_file(Render(items))

CallReadNodeFile ==
    /\ call = "none"
    /\ \E file \in NodeFiles, c \in NodeCallers :
           /\ call' = "read_node_file"
           /\ arg' = [file |-> file, index_col |-> c[1], x_col |-> c[2], y_col |-> c[3]]
           /\ rows' = <<>>
           /\ ret' = read_node_file(file, c[1], c[2], c[3])

CallReadNetFile ==
    /\ call = "none"
    /\ \E file \in NetFiles, c \in EdgeCallers :
           /\ call' = "read_net_file"
           /\ arg' = [file |-> file, u_col |-> c[1], v_col |-> c[2], k_col |-> c[3]]
           /\ rows' = <<>>
           /\ ret' = read_net_file(file, c[1], c[2], c[3])

CallReadFlowFile ==
    /\ call = "none"
    /\ \E file \in FlowFiles, c \in EdgeCallers :
           /\ call' = "read_flow_file"
           /\ arg' = [file |-> file, u_col |-> c[1], v_col |-> c[2], k_col |-> c[3]]
           /\ rows' = <<>>
           /\ ret' = read_flow_file(file, c[1], c[2], c[3])

\* src/example.py: the three tables are read, each with the column names of
\* its file, and handed to convert_to_networkx (flow_df is optional)
GraphNodeFiles ==
    {[header |-> <<Nm("Node"), Nm("X"), Nm("Y"), Nm(";")>>, rows |-> rs] :
        rs \in RowLists({<<<<id>>, <<0>>, <<0>>, None>> : id \in NodeIds})}

GraphKeys(lanes) ==
    IF lanes THEN {<<1, 2, 0>>, <<1, 2, 1>>, <<2, 1, 0>>} ELSE {<<1, 2, 0>>, <<2, 1, 0>>}

GraphNetFiles(lanes) ==
    {[header |-> NetHeader(0, lanes), rows |-> rs] :
        rs \in RowLists({NetRow(e[1], e[2], e[3], lanes) : e \in GraphKeys(lanes)})}

GraphFlowFiles(lanes) ==
    {[header |-> FlowHeader(own, lanes), rows |-> rs] :
        own \in BOOLEAN,
        rs \in RowLists({FlowRow(e[1], e[2], e[3], lanes) : e \in GraphKeys(lanes)})}

LaneArg(lanes) == IF lanes THEN Nm("lane") ELSE NoArg

CallConvertToNetworkx ==
    /\ call = "none"
    /\ \E lanes \in BOOLEAN :
         \E nodes \in GraphNodeFiles, net \in GraphNetFiles(lanes) :
           \E flows \in {<<>>} \cup {<<f>> : f \in GraphFlowFiles(lanes)} :
             LET node_df == read_node_file(nodes, Nm("Node"), Nm("X"), Nm("Y"))
                 net_df == read_net_file(net, Nm("init_node"), Nm("term_node"), LaneArg(lanes))
                 flow_df == read_flow_file(flows[1], flows[1].header[1], flows[1].header[2],
                                           LaneArg(lanes))
             IN  /\ node_df.kind = "ok"
                 /\ net_df.kind = "ok"
                 /\ flows # <<>> => flow_df.kind = "ok"
                 /\ call' = "convert_to_networkx"
                 /\ arg' = [node_df |-> node_df.value, net_df |-> net_df.value,
                            flow |-> IF flows = <<>> THEN <<>> ELSE <<flow_df.value>>]
                 /\ rows' = <<>>
                 /\ ret' = convert_to_networkx(node_df.value, net_df.value,
                               IF flows = <<>> THEN <<>> ELSE <<flow_df.value>>)

\* the call has returned or raised; no reader keeps anything between calls
Return ==
    /\ call # "none"
    /\ call' = "none"
    /\ arg' = <<>>
    /\ rows' = <<>>
    /\ ret' = Ok(<<>>)

Next ==
    \/ CallReadDemandFile
    \/ CallReadNodeFile
    \/ CallReadNetFile
    \/ CallReadFlowFile
    \/ CallConvertToNetworkx
    \/ Return

Spec == Init /\ [][Next]_vars

(***************************************************************************)
(* What a demand file says, read off the text without the two patterns:    *)
(* an entry is found from its closing semicolon backwards, and belongs to  *)
(* the last origin header that ends before it starts.                      *)
(***************************************************************************)
\* the first position of the longest run of Class that ends at position j
RECURSIVE SpanStart(_, _, _)
SpanStart(s, j, Class) ==
    IF j >= 1 /\ s[j] \in Class THEN SpanStart(s, j - 1, Class) ELSE j + 1

NoEntry == [start |-> 0]

\* the entry "<dest> : <value>;" whose semicolon is at position j, the value
\* being <digits>.<digits> (frac) or <digits> alone
EntryEndingAt(s, j) ==
    LET f0 == SpanStart(s, j - 1, Digits)
        dotted == f0 > 1 /\ s[f0 - 1] = "."
        v0 == IF dotted THEN SpanStart(s, f0 - 2, Digits) ELSE f0
        w1 == SpanStart(s, v0 - 1, Spaces)
        w0 == SpanStart(s, w1 - 2, Spaces)
        d0 == SpanStart(s, w0 - 1, Digits)
    IN  IF /\ s[j] = ";"
           /\ f0 < j
           /\ dotted => v0 < f0 - 1
           /\ w1 > 1
           /\ s[w1 - 1] = ":"
           /\ d0 < w0
        THEN [start |-> d0, end |-> j, frac |-> dotted,
              dest |-> ToInt(SubSeq(s, d0, w0 - 1)),
              demand |-> ToFloat(SubSeq(s, v0, j - 1))]
        ELSE NoEntry

EntriesOf(s) ==
    {EntryEndingAt(s, j) : j \in {k \in 1..Len(s) : EntryEndingAt(s, k).start # 0}}

\* the origin headers of the text: "Origin", white space, a whole number
HeadersOf(s) ==
    {[start |-> i,
      end |-> SpanEnd(s, SpanEnd(s, i + 6, Spaces), Digits) - 1,
      orig |-> ToInt(SubSeq(s, SpanEnd(s, i + 6, Spaces),
                               SpanEnd(s, SpanEnd(s, i + 6, Spaces), Digits) - 1))] :
        i \in {k \in 1..(Len(s) - 6) :
                 /\ SubSeq(s, k, k + 5) = OriginWord
                 /\ s[k + 6] \in Spaces
                 /\ SpanEnd(s, k + 6, Spaces) <= Len(s)
                 /\ s[SpanEnd(s, k + 6, Spaces)] \in Digits}}

\* the header an entry stands under: the last one that ends before it starts
HeaderOf(s, e) ==
    LET before == {h \in HeadersOf(s) : h.end < e.start}
    IN  {h \in before : \A g \in before : g.end <= h.end}

\* the (origin, destination, demand) triples of the entries under a header
TriplesOf(s, es) ==
    UNION {{<<h.orig, e.dest, e.demand>> : h \in HeaderOf(s, e)} : e \in es}

DemandCall == call = "read_demand_file"

\* each (origin, destination) pair is written at most once
PairsOnce(s) ==
    \A e1, e2 \in EntriesOf(s) :
        \A h1 \in HeaderOf(s, e1), h2 \in HeaderOf(s, e2) :
            (h1.orig = h2.orig /\ e1.dest = e2.dest) => e1 = e2

AllFractional(s) == \A e \in EntriesOf(s) : e.frac

\* C1: for a demand file in which each (origin, destination) pair is written
\* at most once and every value has a fractional part, read_demand_file
\* returns the matrix whose cell (o, d) holds v exactly when the entry
\* "d : v;" stands under the header "Origin o"; entries before the first
\* header give nothing and every other cell is missing.
C1_EntriesAttributed ==
    (DemandCall /\ PairsOnce(arg.data) /\ AllFractional(arg.data)) =>
        LET T == TriplesOf(arg.data, EntriesOf(arg.data))
        IN  /\ ret.kind = "ok"
            /\ ret.value.index = {t[1] : t \in T}
            /\ ret.value.columns = {t[2] : t \in T}
            /\ \A c \in ret.value.index \X ret.value.columns :
                   ret.value.cells[c] = {t[3] : t \in {u \in T : u[1] = c[1] /\ u[2] = c[2]}}

\* two origins with entries, a cell left missing, and an entry in the
\* preamble that reaches no cell
C1_Witness ==
    /\ DemandCall /\ PairsOnce(arg.data) /\ AllFractional(arg.data)
    /\ ret.kind = "ok"
    /\ Cardinality(ret.value.index) = 2
    /\ \E c \in ret.value.index \X ret.value.columns : ret.value.cells[c] = {}

C1_WitnessPreamble ==
    /\ DemandCall /\ PairsOnce(arg.data) /\ AllFractional(arg.data)
    /\ ret.kind = "ok"
    /\ ret.value.index # {}
    /\ \E e \in EntriesOf(arg.data) : HeaderOf(arg.data, e) = {}

\* C2: read_demand_file raises for every demand file without an
\* "Origin <integer>" header and never returns a matrix for it.
C2_NoHeaderRaises ==
    (DemandCall /\ HeadersOf(arg.data) = {}) => ret.kind = "raise"

\* C3: for every demand file with at least one "Origin <integer>" header
\* read_demand_file returns a matrix and does not raise.
C3_HeaderNeverRaises ==
    (DemandCall /\ HeadersOf(arg.data) # {}) => ret.kind = "ok"

\* the triples the pieces of a file stand for, piece by piece: a well-formed
\* entry under the origin of the last header piece before it
ChunkOrigin(c) == IF c = "H1" THEN 1 ELSE 2
ChunkEntry(c) ==
    CASE c = "E2" -> <<2, 500>>
      [] c = "E3" -> <<3, 150>>
      [] c = "I2" -> <<2, 500>>

RECURSIVE ItemRows(_, _)
ItemRows(items, orig) ==
    IF items = <<>> THEN <<>>
    ELSE LET c == Head(items)
         IN  IF c \in Headers THEN ItemRows(Tail(items), ChunkOrigin(c))
             ELSE IF c \in WellFormed /\ orig # 0
                  THEN <<<<orig, ChunkEntry(c)[1], ChunkEntry(c)[2]>>>>
                           \o ItemRows(Tail(items), orig)
                  ELSE ItemRows(Tail(items), orig)

\* C4: in a block that mixes well-formed entries with malformed fragments
\* the triples extracted are exactly the well-formed entries, none comes
\* from a malformed fragment, and nothing is raised for it.
C4_LenientExact ==
    (/\ DemandCall
     /\ \E k \in 1..Len(arg.items) : arg.items[k] \in WellFormed
     /\ \E k \in 1..Len(arg.items) : arg.items[k] \in Malformed) =>
        LET want == ItemRows(arg.items, 0)
        IN  /\ CoerceRows(rows) = want
            /\ (\A j, k \in 1..Len(want) :
                    (want[j][1] = want[k][1] /\ want[j][2] = want[k][2]) => j = k)
                 => ret.kind = "ok"

\* what does hold of the lenient extraction: with every value written with a
\* fractional part, and no fragment that lacks its semicolon directly
\* followed by an entry, the triples extracted are the well-formed entries
ExactWhenFractionalAndSeparated ==
    (/\ DemandCall
     /\ \A k \in 1..Len(arg.items) : arg.items[k] # "I2"
     /\ \A k \in 1..(Len(arg.items) - 1) :
            arg.items[k] = "NS" => arg.items[k + 1] \notin WellFormed) =>
        CoerceRows(rows) = ItemRows(arg.items, 0)

\* C9: every semicolon-terminated entry "<dest> : <value>;" under a header,
\* the value written with or without a fractional part and with any white
\* space around the colon, is extracted with its value.
C9_EveryEntryExtracted ==
    DemandCall =>
        TriplesOf(arg.data, EntriesOf(arg.data)) \subseteq Range(CoerceRows(rows))

NodeCall == call = "read_node_file"
EdgeCall == call \in {"read_net_file", "read_flow_file"}
GraphCall == call = "convert_to_networkx"

\* C5: read_node_file never returns a table with a repeated node id: a file
\* with a node id in two or more rows makes the call raise, and the index of
\* every table returned has pairwise distinct values.
C5_NodeIdsUnique ==
    NodeCall =>
        /\ HasDuplicates([r \in 1..Len(arg.file.rows) |-> arg.file.rows[r][1]])
               => ret.kind = "raise"
        /\ ret.kind = "ok" => ~HasDuplicates(ret.value.index)

\* the file with the white space around the header of its first column,
\* the node id, taken away
TrimmedIdHeader(file) == [file EXCEPT !.header[1] = Strip(file.header[1])]

\* C10: read_node_file called with the trimmed name of the node-id column
\* succeeds and returns the table it returns for the same file with no white
\* space around that header.
C10_TrimmedIndexCol ==
    (NodeCall /\ arg.index_col = Strip(arg.file.header[1])) =>
        LET plain == read_node_file(TrimmedIdHeader(arg.file),
                                    arg.index_col, arg.x_col, arg.y_col)
        IN  /\ ret.kind = plain.kind
            /\ ret.kind = "ok" => ret.value = plain.value

\* the (from, to, key) triple the caller's column names give a row of the
\* file, the key being 0 when no k_col is supplied
TrimmedHeader(file) == [k \in 1..Len(file.header) |-> Strip(file.header[k])]
Resolved(a) ==
    /\ Positions(TrimmedHeader(a.file), a.u_col) # {}
    /\ Positions(TrimmedHeader(a.file), a.v_col) # {}
    /\ a.k_col # NoArg => Positions(TrimmedHeader(a.file), a.k_col) # {}
CellUnder(a, r, col) ==
    a.file.rows[r][CHOOSE k \in Positions(TrimmedHeader(a.file), col) : TRUE][1]
FileTriple(a, r) ==
    <<CellUnder(a, r, a.u_col), CellUnder(a, r, a.v_col),
      IF a.k_col = NoArg THEN 0 ELSE CellUnder(a, r, a.k_col)>>
SharedTriple(a) ==
    Resolved(a) /\ HasDuplicates([r \in 1..Len(a.file.rows) |-> FileTriple(a, r)])

\* C6: read_net_file and read_flow_file never return a table with a repeated
\* (from, to, key): two rows sharing the triple make the call raise, also
\* when no k_col is supplied and the key is 0 for every row.
C6_EdgeKeysUnique ==
    EdgeCall =>
        /\ SharedTriple(arg) => ret.kind = "raise"
        /\ ret.kind = "ok" =>
              /\ ~HasDuplicates(ret.value.index)
              /\ ret.value.index = [r \in 1..Len(arg.file.rows) |-> FileTriple(arg, r)]

\* two rows with the same (from, to) in different lanes, no k_col: refused
C6_Witness ==
    /\ EdgeCall /\ arg.k_col = NoArg /\ SharedTriple(arg)
    /\ ~SharedTriple([arg EXCEPT !.k_col = Nm("lane")])
    /\ ret = Raise("ValueError")

EndpointsAreNodes ==
    \A r \in 1..Len(arg.net_df.index) :
        /\ <<arg.net_df.index[r][1]>> \in Range(arg.node_df.index)
        /\ <<arg.net_df.index[r][2]>> \in Range(arg.node_df.index)

\* C7: given a node table with N rows and an edge table with unique keys
\* whose endpoints are node ids, the graph has exactly N nodes and one edge
\* per edge-table row, with or without a flow table.
C7_NothingDroppedOrDuplicated ==
    (GraphCall /\ EndpointsAreNodes) =>
        /\ ret.kind = "ok"
        /\ Cardinality(DOMAIN ret.value.nodes) = Len(arg.node_df.index)
        /\ Cardinality(DOMAIN ret.value.edges) = Len(arg.net_df.index)

\* the same for node tables without a repeated node id
NodesAndEdgesKeptForDistinctIds ==
    (GraphCall /\ EndpointsAreNodes /\ ~HasDuplicates(arg.node_df.index)) =>
        /\ ret.kind = "ok"
        /\ Cardinality(DOMAIN ret.value.nodes) = Len(arg.node_df.index)
        /\ Cardinality(DOMAIN ret.value.edges) = Len(arg.net_df.index)

\* the flow rows whose first, second and third index level are a, b and k
FlowRowsAt(e) ==
    IF arg.flow = <<>> THEN {}
    ELSE {q \in 1..Len(arg.flow[1].index) : arg.flow[1].index[q] = e}

\* C8: the flow table is matched to the edge table by the position of the
\* key levels, not their names: the edge (a, b, k) carries its base
\* attributes and the attributes of the flow row whose three levels are
\* a, b, k; with no such flow row it carries its base attributes only.
C8_FlowMatchedByPosition ==
    (GraphCall /\ arg.flow # <<>> /\ EndpointsAreNodes
        /\ ~HasDuplicates(arg.node_df.index)) =>
        /\ ret.kind = "ok"
        /\ \A r \in 1..Len(arg.net_df.index) :
              ret.value.edges[arg.net_df.index[r]] =
                  Attrs(arg.net_df, r) \cup
                  UNION {Attrs(arg.flow[1], q) : q \in FlowRowsAt(arg.net_df.index[r])}

\* a flow file with its own column names; one edge with a flow row, one without
C8_Witness ==
    /\ GraphCall /\ arg.flow # <<>> /\ ret.kind = "ok"
    /\ arg.flow[1].index_names # arg.net_df.index_names
    /\ \E e \in DOMAIN ret.value.edges : \E a \in ret.value.edges[e] : a[1] = "volume"
    /\ \E e \in DOMAIN ret.value.edges : \A a \in ret.value.edges[e] : a[1] # "volume"

====
